---- MODULE Spec2Model ----
(***************************************************************************)
(* A model of rmesg's /dev/kmsg line parser (src/src/kmsgfile.rs) and of   *)
(* the backend selection of src/src/lib.rs.                                *)
(*                                                                         *)
(* Text is a sequence of one-character strings.  Unsigned integers are     *)
(* kept as canonical decimal numerals (digit sequences without leading     *)
(* zeros), so that u32/u64 values keep their exact width.                  *)
(***************************************************************************)
EXTENDS Integers, Sequences, FiniteSets, TLC

VARIABLES line, pres, text, ppc,
          req, pc, calls, devres, ret,
          ring, nexts,
          rpc, flags, pending, buf

pvars == <<line, pres, text, ppc>>
ovars == <<req, pc, calls, devres, ret>>
xvars == <<ring, nexts>>
rvars == <<rpc, flags, pending, buf>>
vars == <<line, pres, text, ppc, req, pc, calls, devres, ret, ring, nexts,
          rpc, flags, pending, buf>>

(***************************************************************************)
(* Characters and numerals                                                 *)
(***************************************************************************)
Digit == {"0", "1", "2", "3", "4", "5", "6", "7", "8", "9"}

\* [[:space:]] of the regex crate: space, \t, \n, \v, \f, \r
Space == {" ", "\t", "\n", "\r", "\f"}

DigitVal(c) ==
  CASE c = "0" -> 0 [] c = "1" -> 1 [] c = "2" -> 2 [] c = "3" -> 3
    [] c = "4" -> 4 [] c = "5" -> 5 [] c = "6" -> 6 [] c = "7" -> 7
    [] c = "8" -> 8 [] c = "9" -> 9

DigitChar(d) ==
  CASE d = 0 -> "0" [] d = 1 -> "1" [] d = 2 -> "2" [] d = 3 -> "3"
    [] d = 4 -> "4" [] d = 5 -> "5" [] d = 6 -> "6" [] d = 7 -> "7"
    [] d = 8 -> "8" [] d = 9 -> "9"

None == <<>>
Some(v) == <<v>>
IsSome(o) == o # <<>>

Ok(v) == [ok |-> TRUE, val |-> v]
Err(e) == [ok |-> FALSE, err |-> e]

\* the numeral of the value of a non-empty digit run: leading zeros dropped
RECURSIVE Normalize(_)
Normalize(ds) ==
  IF Len(ds) > 1 /\ ds[1] = "0" THEN Normalize(Tail(ds)) ELSE ds

\* a <= b on canonical numerals
RECURSIVE LexLeq(_, _)
LexLeq(a, b) ==
  IF a = <<>> THEN TRUE
  ELSE IF a[1] # b[1] THEN DigitVal(a[1]) < DigitVal(b[1])
  ELSE LexLeq(Tail(a), Tail(b))

NumLeq(a, b) == Len(a) < Len(b) \/ (Len(a) = Len(b) /\ LexLeq(a, b))

\* u32::MAX = 4294967295
U32Max == <<"4","2","9","4","9","6","7","2","9","5">>
\* u64::MAX = usize::MAX on a 64-bit target = 18446744073709551615
U64Max == <<"1","8","4","4","6","7","4","4","0","7",
            "3","7","0","9","5","5","1","6","1","5">>

\* quotient and remainder of a numeral by 8 (long division, digit by digit)
RECURSIVE DivRem8(_, _, _)
DivRem8(ds, r, q) ==
  IF ds = <<>> THEN [quot |-> Normalize(q), rem |-> r]
  ELSE LET cur == r * 10 + DigitVal(ds[1])
       IN DivRem8(Tail(ds), cur % 8, Append(q, DigitChar(cur \div 8)))

\* numeral of n * 8 + add, from the least significant digit
RECURSIVE MulAdd8(_, _, _)
MulAdd8(ds, carry, acc) ==
  IF ds = <<>>
  THEN IF carry = 0 THEN (IF acc = <<>> THEN <<"0">> ELSE acc)
       ELSE MulAdd8(<<>>, carry \div 10, <<DigitChar(carry % 10)>> \o acc)
  ELSE LET cur == DigitVal(ds[Len(ds)]) * 8 + carry
       IN MulAdd8(SubSeq(ds, 1, Len(ds) - 1), cur \div 10,
                  <<DigitChar(cur % 10)>> \o acc)

(***************************************************************************)
(* common.rs helpers used by entry_from_line                               *)
(***************************************************************************)
ParseErr(what, l) == [kind |-> "EntryParsingError", what |-> what, line |-> l]

\* parse_fragment::<N>(frag, line): frag.parse::<N>() for an unsigned N with
\* maximum max; the empty string and an out-of-range value are errors
parse_fragment(frag, max, l) ==
  IF frag = <<>> \/ \E i \in 1..Len(frag) : frag[i] \notin Digit
  THEN Err(ParseErr("fragment", l))
  ELSE IF ~NumLeq(Normalize(frag), max) THEN Err(ParseErr("range", l))
  ELSE Ok(Normalize(frag))

\* parse_favlecstr: an absent priority gives (None, None); otherwise the
\* u32 priority is split into facility = faclev / 8 and level = faclev % 8
parse_favlecstr(faclevstr, l) ==
  IF faclevstr = <<>> THEN Ok(<<None, None>>)
  ELSE LET r == parse_fragment(faclevstr, U32Max, l)
       IN IF ~r.ok THEN r
          ELSE LET d == DivRem8(r.val, 0, <<>>)
               IN Ok(<<Some(d.quot), Some(<<DigitChar(d.rem)>>)>>)

\* parse_timestamp_microsecs: absent field -> absent value, otherwise a
\* Duration of that many microseconds (u64)
parse_timestamp_microsecs(timestampstr, l) ==
  IF timestampstr = <<>> THEN Ok(None)
  ELSE LET r == parse_fragment(timestampstr, U64Max, l)
       IN IF ~r.ok THEN r ELSE Ok(Some(r.val))

(***************************************************************************)
(* RE_ENTRY_WITH_TIMESTAMP                                                 *)
(***************************************************************************)
\* a greedy cls* starting at position i: the first position not in cls
RECURSIVE SkipClass(_, _, _)
SkipClass(l, i, cls) ==
  IF i <= Len(l) /\ l[i] \in cls THEN SkipClass(l, i + 1, cls) ELSE i

\* a greedy [^;]* starting at position i
RECURSIVE SkipNotSemi(_, _)
SkipNotSemi(l, i) ==
  IF i <= Len(l) /\ l[i] # ";" THEN SkipNotSemi(l, i + 1) ELSE i

\* [[:space:]]*(?P<..>[[:digit:]]*)[[:space:]]*,  starting at position i
Field(l, i) ==
  LET a == SkipClass(l, i, Space)
      b == SkipClass(l, a, Digit)
      c == SkipClass(l, b, Space)
  IN [ok |-> c <= Len(l) /\ l[c] = ",",
      str |-> SubSeq(l, a, b - 1),
      next |-> c + 1]

\* a greedy .* followed by ';': the position of the last ';' at or after i
LastSemi(l, i) ==
  IF \E k \in i..Len(l) : l[k] = ";"
  THEN CHOOSE k \in i..Len(l) :
         l[k] = ";" /\ \A j \in (k + 1)..Len(l) : l[j] # ";"
  ELSE Len(l) + 1

\* Captures with ".*;" in place of "[[^;]]*;": the message starts after the
\* last semicolon
CapturesLastSemi(l) ==
  LET f1 == Field(l, 1)
      f2 == Field(l, f1.next)
      f3 == Field(l, f2.next)
      s == LastSemi(l, f3.next)
  IN IF f1.ok /\ f2.ok /\ f3.ok /\ s <= Len(l)
     THEN [matched |-> TRUE,
           faclevstr |-> f1.str,
           sequencenum |-> f2.str,
           timestampstr |-> f3.str,
           message |-> SubSeq(l, s + 1, Len(l))]
     ELSE [matched |-> FALSE]

\* RE_ENTRY_WITH_TIMESTAMP.captures(line): anchored at both ends; '.' does
\* not match a newline
Captures(l) ==
  LET f1 == Field(l, 1)
      f2 == Field(l, f1.next)
      f3 == Field(l, f2.next)
      s == SkipNotSemi(l, f3.next)
  IN IF f1.ok /\ f2.ok /\ f3.ok /\ s <= Len(l)
        /\ \A k \in (s + 1)..Len(l) : l[k] # "\n"
     THEN [matched |-> TRUE,
           faclevstr |-> f1.str,
           sequencenum |-> f2.str,
           timestampstr |-> f3.str,
           message |-> SubSeq(l, s + 1, Len(l))]
     ELSE [matched |-> FALSE]

(***************************************************************************)
(* Entry, entry_from_line, to_kmsg_str                                     *)
(***************************************************************************)
Entry(fac, lev, seq, ts, msg) ==
  [facility |-> fac, level |-> lev, sequence_num |-> seq,
   timestamp_from_system_start |-> ts, message |-> msg]

\* entry_from_line with the unmatched line trimmed of leading whitespace
entry_from_line_trimmed(l) ==
  LET kmsgparts == Captures(l)
  IN IF kmsgparts.matched
     THEN LET fl == parse_favlecstr(kmsgparts.faclevstr, l)
              sq == parse_fragment(kmsgparts.sequencenum, U64Max, l)
              ts == parse_timestamp_microsecs(kmsgparts.timestampstr, l)
          IN IF ~fl.ok THEN fl
             ELSE IF ~sq.ok THEN sq
             ELSE IF ~ts.ok THEN ts
             ELSE Ok(Entry(fl.val[1], fl.val[2], Some(sq.val), ts.val,
                           kmsgparts.message))
     ELSE Ok(Entry(None, None, None, None,
                   SubSeq(l, SkipClass(l, 1, Space), Len(l))))

\* entry_from_line with a sequence number that does not decode degrading the
\* line to the raw form instead of failing
entry_from_line_lenient(l) ==
  LET kmsgparts == Captures(l)
  IN IF kmsgparts.matched
     THEN LET fl == parse_favlecstr(kmsgparts.faclevstr, l)
              sq == parse_fragment(kmsgparts.sequencenum, U64Max, l)
              ts == parse_timestamp_microsecs(kmsgparts.timestampstr, l)
          IN IF ~fl.ok THEN fl
             ELSE IF ~sq.ok THEN Ok(Entry(None, None, None, None, l))
             ELSE IF ~ts.ok THEN ts
             ELSE Ok(Entry(fl.val[1], fl.val[2], Some(sq.val), ts.val,
                           kmsgparts.message))
     ELSE Ok(Entry(None, None, None, None, l))

\* entry_from_line with the (facility, level) pair taken in the wrong order
entry_from_line_swapped(l) ==
  LET kmsgparts == Captures(l)
  IN IF kmsgparts.matched
     THEN LET fl == parse_favlecstr(kmsgparts.faclevstr, l)
              sq == parse_fragment(kmsgparts.sequencenum, U64Max, l)
              ts == parse_timestamp_microsecs(kmsgparts.timestampstr, l)
          IN IF ~fl.ok THEN fl
             ELSE IF ~sq.ok THEN sq
             ELSE IF ~ts.ok THEN ts
             ELSE Ok(Entry(fl.val[2], fl.val[1], Some(sq.val), ts.val,
                           kmsgparts.message))
     ELSE Ok(Entry(None, None, None, None, l))

entry_from_line(l) ==
  LET kmsgparts == Captures(l)
  IN IF kmsgparts.matched
     THEN LET fl == parse_favlecstr(kmsgparts.faclevstr, l)
              sq == parse_fragment(kmsgparts.sequencenum, U64Max, l)
              ts == parse_timestamp_microsecs(kmsgparts.timestampstr, l)
          IN IF ~fl.ok THEN fl
             ELSE IF ~sq.ok THEN sq
             ELSE IF ~ts.ok THEN ts
             ELSE Ok(Entry(fl.val[1], fl.val[2], Some(sq.val), ts.val,
                           kmsgparts.message))
     ELSE Ok(Entry(None, None, None, None, l))

\* Entry::to_faclev: facility * 8 + level when both are present
to_faclev(e) ==
  IF IsSome(e.facility) /\ IsSome(e.level)
  THEN Some(MulAdd8(e.facility[1], DigitVal(e.level[1][1]), <<>>))
  ELSE None

OptStr(o) == IF IsSome(o) THEN o[1] ELSE <<>>

\* Entry::to_kmsg_str: "<faclev>,<sequence>,<timestamp>,-;<message>" for an
\* entry with a priority, the bare message otherwise
to_kmsg_str(e) ==
  IF IsSome(to_faclev(e))
  THEN to_faclev(e)[1] \o <<",">> \o OptStr(e.sequence_num) \o <<",">>
       \o OptStr(e.timestamp_from_system_start) \o <<",", "-", ";">>
       \o e.message
  ELSE e.message

(***************************************************************************)
(* Input lines                                                             *)
(***************************************************************************)
MaxLen == 5

Alphabet == {"7", " ", ",", ";", "m"}

\* every line over Alphabet of at most MaxLen characters
ShortLines == UNION {[1..n -> Alphabet] : n \in 0..MaxLen}

FacLevRuns == {<<>>, <<"0">>, <<"1">>, <<"6">>, <<"7">>, <<"8">>, <<"2","3">>,
               <<"1","9","1">>, <<"0","8">>, <<" ","6">>, <<"6"," ">>,
               Append(SubSeq(U32Max, 1, 9), "6")}
SequenceRuns == {<<>>, <<"0">>, <<"7","7","9">>, <<"0","7">>, <<" ","5">>,
                 U64Max, Append(SubSeq(U64Max, 1, 19), "6")}
TimestampRuns == {<<>>, <<"0">>, <<"0","0">>, <<"3"," ">>,
                  U64Max, Append(SubSeq(U64Max, 1, 19), "6"),
                  <<"9","1","6","5","0","7","7","7","7","9","7">>}
IgnoredRuns == {<<>>, <<"-">>, <<" ","-">>, <<"-",",","m","o","r","e">>, <<"x">>}
DockerMessage == <<"d","o","c","k","e","r","0",":"," ","p","o","r","t"," ","2","(","v","e","t","h","9","8","d","5","0","2","4",")"," ","e","n","t","e","r","e","d"," ","d","i","s","a","b","l","e","d"," ","s","t","a","t","e">>
Messages == {<<>>, <<"m">>, <<"a",";","b">>, <<" ","m"," ">>, <<"m",",","1">>,
             DockerMessage}

\* lines put together from the fields of the kernel's record format
ComposedLines ==
  {f \o <<",">> \o s \o <<",">> \o t \o <<",">> \o i \o <<";">> \o m :
     f \in FacLevRuns, s \in SequenceRuns, t \in TimestampRuns,
     i \in IgnoredRuns, m \in Messages}

\* the continuation lines of the examples in kmsgfile.rs
Line2 == <<" ","L","I","N","E","2","=","f","o","o","b","a","r">>
Line3 == <<" ","L","I","N","E"," ","3"," ","="," ","f","o","o","b","a","r"," ",";"," ","w","i","t","h"," ","s","e","m","i","c","o","l","o","n">>
SampleLines == {Line2, Line3, <<"6",",","1",",","0","\n">>,
                <<"6",",","2",",","0",",","-",";","a","\n","b">>}

Lines == ShortLines \cup ComposedLines \cup SampleLines

(***************************************************************************)
(* The parser driven over one line: parse, then serialize                  *)
(***************************************************************************)
NoRequest == [op |-> "none", b |-> "none", clear |-> FALSE, raw |-> FALSE]

NoResult == [ok |-> FALSE, err |-> [kind |-> "none", msg |-> <<>>]]

InitParse ==
  /\ line \in Lines
  /\ pres = NoResult
  /\ text = <<>>
  /\ ppc = "input"
  /\ req = NoRequest /\ pc = "idle" /\ calls = <<>>
  /\ devres = NoResult /\ ret = NoResult
  /\ ring = "intact" /\ nexts = <<>>
  /\ rpc = "off" /\ flags = {} /\ pending = <<>> /\ buf = <<>>

\* entry_from_line(line)
Parse ==
  /\ ppc = "input"
  /\ pres' = entry_from_line(line)
  /\ ppc' = "parsed"
  /\ UNCHANGED <<line, text>>
  /\ UNCHANGED <<ovars, xvars, rvars>>

\* entry.to_kmsg_str() on the parsed Entry
Serialize ==
  /\ ppc = "parsed"
  /\ pres.ok
  /\ text' = to_kmsg_str(pres.val)
  /\ ppc' = "serialized"
  /\ UNCHANGED <<line, pres>>
  /\ UNCHANGED <<ovars, xvars, rvars>>

NextParse == Parse \/ Serialize

SpecParse == InitParse /\ [][NextParse]_vars

(***************************************************************************)
(* The device file backend: kmsg_raw, kmsg, KMsgEntriesIter::with_options  *)
(***************************************************************************)
DEV_KMSG_PATH == "/dev/kmsg"

RErr(kind, msg) == Err([kind |-> kind, msg |-> msg])

\* From<EntryParsingError> for RMesgError
FromParsingError(r) ==
  IF r.ok THEN r ELSE RErr("EntryParsingError", <<r.err.what, r.err.line>>)

\* what File::open can report: success, or the errno of the failure
OpenOutcomes == {"ok", "EPERM", "EACCES", "ENOENT"}
\* the errnos of std::io::ErrorKind::PermissionDenied
PermissionErrnos == {"EPERM", "EACCES"}
FromFdOutcomes == {"ok", "EBADF"}
ReadOutcomes == {"ok", "EPERM", "EIO"}

MaxFileLines == 2

FileLineSamples ==
  {<<"6",",","1",",","0",",","-",";","m">>,
   <<" ","m">>,
   <<"6",",",",","0",",","-",";","m">>,
   <<"5",",",",","7",",","-",";","b">>,
   <<"5",",","2",",","7",",","-",";","a","\r">>}

RECURSIVE JoinLines(_)
JoinLines(ls) ==
  IF ls = <<>> THEN <<>> ELSE ls[1] \o <<"\n">> \o JoinLines(Tail(ls))

\* what the device can hold: up to MaxFileLines newline-terminated lines
FileContents ==
  {JoinLines(ls) : ls \in UNION {[1..n -> FileLineSamples] : n \in 0..MaxFileLines}}

DevEnv ==
  [open : OpenOutcomes, fromfd : FromFdOutcomes, read : ReadOutcomes,
   contents : FileContents]

\* the match on File::open's result, shared by with_options and kmsg_raw
OpenError(errno) ==
  IF errno = "EPERM"
  THEN RErr("OperationNotPermitted", <<"Open File", DEV_KMSG_PATH>>)
  ELSE RErr("DevKMsgFileOpenError",
            <<"Unable to open file", DEV_KMSG_PATH, errno>>)

\* KMsgEntriesIter::with_options(None, raw)
with_options(env, raw) ==
  IF env.open # "ok" THEN OpenError(env.open)
  ELSE Ok([raw |-> raw, lines_iter |-> DEV_KMSG_PATH])

\* kmsg_raw(None)
kmsg_raw(env) ==
  IF env.open # "ok" THEN OpenError(env.open)
  ELSE IF env.fromfd # "ok" THEN RErr("IOError", <<"from_fd", env.fromfd>>)
  ELSE IF env.read = "EPERM"
  THEN RErr("OperationNotPermitted", <<"Read from File", DEV_KMSG_PATH>>)
  ELSE IF env.read # "ok"
  THEN RErr("DevKMsgFileOpenError",
            <<"Unable to read from file", DEV_KMSG_PATH, env.read>>)
  ELSE Ok(env.contents)

\* str::lines: split at "\n", a final line needs no terminator, and one
\* trailing "\r" of a line is dropped
RECURSIVE SplitLines(_)
SplitLines(t) ==
  IF t = <<>> THEN <<>>
  ELSE LET n == IF \E k \in 1..Len(t) : t[k] = "\n"
                THEN CHOOSE k \in 1..Len(t) :
                       t[k] = "\n" /\ \A j \in 1..(k - 1) : t[j] # "\n"
                ELSE Len(t) + 1
           l == SubSeq(t, 1, n - 1)
           stripped == IF l # <<>> /\ l[Len(l)] = "\r"
                       THEN SubSeq(l, 1, Len(l) - 1) ELSE l
       IN <<stripped>> \o SplitLines(SubSeq(t, n + 1, Len(t)))

\* a collect that keeps going and reports the last error
RECURSIVE CollectLastError(_)
CollectLastError(rs) ==
  IF rs = <<>> THEN Ok(<<>>)
  ELSE LET rest == CollectLastError(Tail(rs))
       IN IF ~rest.ok THEN rest
          ELSE IF ~rs[1].ok THEN rs[1]
          ELSE Ok(<<rs[1].val>> \o rest.val)

\* collect::<Result<Vec<_>, _>>(): the first error, or every value
RECURSIVE Collect(_)
Collect(rs) ==
  IF rs = <<>> THEN Ok(<<>>)
  ELSE IF ~rs[1].ok THEN rs[1]
  ELSE LET rest == Collect(Tail(rs))
       IN IF ~rest.ok THEN rest ELSE Ok(<<rs[1].val>> \o rest.val)

\* kmsg(None)
kmsg(env) ==
  LET file_contents == kmsg_raw(env)
  IN IF ~file_contents.ok THEN file_contents
     ELSE LET ls == SplitLines(file_contents.val)
          IN FromParsingError(
               Collect([i \in 1..Len(ls) |-> entry_from_line(ls[i])]))

MaxNext == 3

\* what lines_iter.next() can give: a line of the device without its
\* terminator, a read error, or the end of the stream
StreamLines == {SplitLines(l \o <<"\n">>)[1] : l \in FileLineSamples}

LineReads ==
  {None} \cup {Some(Ok(l)) : l \in StreamLines} \cup {Some(Err("EIO"))}

\* Entry { .. None, message: line }
RawLineEntry(l) == Entry(None, None, None, None, l)

\* the raw flag of a KMsgEntriesIter
RawOf(it) == IF "raw" \in DOMAIN it THEN it.raw ELSE FALSE

\* KMsgEntriesIter::next
kmsg_next_always_parsing(it, rd) ==
  IF rd = None THEN None
  ELSE IF ~rd[1].ok THEN Some(RErr("IOError", <<"lines", rd[1].err>>))
  ELSE Some(FromParsingError(entry_from_line(rd[1].val)))

kmsg_next_ending_on_error(it, rd) ==
  IF rd = None THEN None
  ELSE IF ~rd[1].ok THEN None
  ELSE IF RawOf(it) THEN Some(Ok(RawLineEntry(rd[1].val)))
  ELSE Some(FromParsingError(entry_from_line(rd[1].val)))

kmsg_next(it, rd) ==
  IF rd = None THEN None
  ELSE IF ~rd[1].ok THEN Some(RErr("IOError", <<"lines", rd[1].err>>))
  ELSE IF RawOf(it) THEN Some(Ok(RawLineEntry(rd[1].val)))
  ELSE Some(FromParsingError(entry_from_line(rd[1].val)))

(***************************************************************************)
(* The klogctl backend, at its boundary                                    *)
(***************************************************************************)
KLogErrors ==
  {[kind |-> "OperationNotPermitted", msg |-> <<"klogctl">>],
   [kind |-> "InternalError", msg |-> <<"klogctl">>]}

\* klog(clear)
KLogOutcomes(clear) ==
  {Ok(<<Entry(Some(<<"0">>), Some(<<"6">>), Some(<<"1">>), Some(<<"0">>), <<"k">>)>>)} \cup {Err(e) : e \in KLogErrors}

\* klog_raw(clear)
KLogRawOutcomes(clear) ==
  {Ok(<<"k", "\n">>)} \cup {Err(e) : e \in KLogErrors}

\* klog_timestamps_enabled()
TimestampOutcomes ==
  {Ok(TRUE), Ok(FALSE),
   RErr("IOError", <<"/sys/module/printk/parameters/time">>)}

\* KLogEntries::with_options(clear, SUGGESTED_POLL_INTERVAL)
KLogEntriesOutcomes(clear) ==
  {Ok([clear |-> clear, poll_interval |-> "SUGGESTED_POLL_INTERVAL"])}
    \cup {Err(e) : e \in KLogErrors}

\* KLogEntries::next: an entry of the next poll, or the poll's error
KLogNextOutcomes ==
  {Some(Ok(Entry(Some(<<"0">>), Some(<<"6">>), Some(<<"2">>), Some(<<"7">>), <<"k">>)))}
    \cup {Some(Err(e)) : e \in KLogErrors}

\* the ring buffer after a poll of a KLogEntries built with this clear flag
RingAfterPoll(r, it, y) ==
  IF "clear" \in DOMAIN it /\ it.clear /\ y # None /\ y[1].ok
  THEN "cleared" ELSE r

(***************************************************************************)
(* lib.rs: log_entries, logs_raw, logs_iter                                *)
(***************************************************************************)
Backend == {"Default", "KLogCtl", "DevKMsg"}
Ops == {"log_entries", "logs_raw", "logs_iter"}

Requests ==
  {r \in [op : Ops, b : Backend, clear : BOOLEAN, raw : BOOLEAN] :
     r.op # "logs_iter" => r.raw = FALSE}

\* the device file function each request shape calls
DevFn(op) ==
  CASE op = "log_entries" -> "kmsg"
    [] op = "logs_raw" -> "kmsg_raw"
    [] op = "logs_iter" -> "KMsgEntriesIter::with_options"

\* the klogctl function each request shape calls
SysFn(op) ==
  CASE op = "log_entries" -> "klog"
    [] op = "logs_raw" -> "klog_raw"
    [] op = "logs_iter" -> "KLogEntries::with_options"

DevResult(op, env, raw) ==
  CASE op = "log_entries" -> kmsg(env)
    [] op = "logs_raw" -> kmsg_raw(env)
    [] op = "logs_iter" -> with_options(env, raw)

SysOutcomes(op, clear) ==
  CASE op = "log_entries" -> KLogOutcomes(clear)
    [] op = "logs_raw" -> KLogRawOutcomes(clear)
    [] op = "logs_iter" -> KLogEntriesOutcomes(clear)

\* the outer match on the Backend
StartsWithKLogCtl(b) == b = "KLogCtl"

\* only Backend::Default matches on the device file's result
MatchesOnAnyBackend(b) == TRUE
MatchesDeviceResult(b) == b = "Default"

\* the arm Err(RMesgError::DevKMsgFileOpenError(s)) of that match
FallsBackOnAnyError(r) == ~r.ok
FallsBack(r) == ~r.ok /\ r.err.kind = "DevKMsgFileOpenError"

\* the clear flag handed to the klogctl backend
ClearDropped(r) == FALSE
ClearPassed(r) == r.clear

\* EntriesIterator::DevKMsg(..), EntriesIterator::KLogCtl(..)
EntriesIterator(variant, it) == [variant |-> variant, it |-> it]

\* what the caller gets from a device file result
WrapDev(op, r) ==
  IF r.ok /\ op = "logs_iter" THEN Ok(EntriesIterator("DevKMsg", r.val)) ELSE r

\* what the caller gets from a klogctl result
WrapSys(op, r) ==
  IF r.ok /\ op = "logs_iter" THEN Ok(EntriesIterator("KLogCtl", r.val)) ELSE r

\* klog_entries_only_if_timestamp_enabled, up to the constructor call: the
\* error it returns, or Ok when it goes on to KLogEntries::with_options
GateIgnoringDisabled(q) == IF ~q.ok THEN q ELSE Ok("construct")
TimestampGate(q) ==
  IF ~q.ok THEN q
  ELSE IF ~q.val THEN RErr("KLogTimestampsDisabled", <<>>)
  ELSE Ok("construct")

\* EntriesIterator::next: the variant whose next() is called
ForwardsToDevice(e) == "DevKMsg"
Forwards(e) == e.variant

\* how far a device file call got: the steps after a failed one are not run
FromFdReached(op, env) ==
  IF op # "logs_iter" /\ env.open = "ok" THEN env.fromfd ELSE "none"

ReadReached(op, env) ==
  IF FromFdReached(op, env) = "ok" THEN env.read ELSE "none"

ContentsRead(op, env) ==
  IF ReadReached(op, env) = "ok" THEN env.contents ELSE <<>>

\* the kernel ring buffer after a klogctl read: SYSLOG_ACTION_READ_CLEAR
\* empties it, SYSLOG_ACTION_READ_ALL leaves it alone
RingAfter(r, clear, res) == IF clear /\ res.ok THEN "cleared" ELSE r

Init ==
  /\ line = <<>> /\ pres = NoResult /\ text = <<>> /\ ppc = "off"
  /\ req = NoRequest
  /\ pc = "idle"
  /\ calls = <<>>
  /\ devres = NoResult
  /\ ret = NoResult
  /\ ring = "intact" /\ nexts = <<>>
  /\ rpc = "off" /\ flags = {} /\ pending = <<>> /\ buf = <<>>

\* a caller enters log_entries, logs_raw or logs_iter
Request ==
  /\ pc = "idle"
  /\ \E r \in Requests :
       /\ req' = r
       /\ pc' = IF StartsWithKLogCtl(r.b) THEN "syscall" ELSE "device"
  /\ UNCHANGED <<calls, devres, ret>>
  /\ UNCHANGED <<ring, nexts>>
  /\ UNCHANGED <<pvars, rvars>>

\* the call into kmsgfile
DeviceCall ==
  /\ pc = "device"
  /\ \E env \in DevEnv :
       LET r == DevResult(req.op, env, req.raw)
       IN /\ devres' = r
          /\ calls' = Append(calls, [fn |-> DevFn(req.op), backend |-> "device",
                                     open |-> env.open,
                                     fromfd |-> FromFdReached(req.op, env),
                                     read |-> ReadReached(req.op, env),
                                     contents |-> ContentsRead(req.op, env),
                                     clear |-> FALSE, res |-> r])
  /\ pc' = "matched"
  /\ UNCHANGED <<req, ret>>
  /\ UNCHANGED <<ring, nexts>>
  /\ UNCHANGED <<pvars, rvars>>

\* Backend::DevKMsg: the device file's result is the caller's
DeviceOnlyReturn ==
  /\ pc = "matched"
  /\ ~MatchesDeviceResult(req.b)
  /\ ret' = WrapDev(req.op, devres)
  /\ pc' = "done"
  /\ UNCHANGED <<req, calls, devres>>
  /\ UNCHANGED <<ring, nexts>>
  /\ UNCHANGED <<pvars, rvars>>

\* Backend::Default, arm Ok(e)
DefaultOk ==
  /\ pc = "matched"
  /\ MatchesDeviceResult(req.b)
  /\ devres.ok
  /\ ret' = WrapDev(req.op, devres)
  /\ pc' = "done"
  /\ UNCHANGED <<req, calls, devres>>
  /\ UNCHANGED <<ring, nexts>>
  /\ UNCHANGED <<pvars, rvars>>

\* Backend::Default, arm Err(DevKMsgFileOpenError(s)): the notice is printed
\* and the klogctl backend is tried
Fallback ==
  /\ pc = "matched"
  /\ MatchesDeviceResult(req.b)
  /\ FallsBack(devres)
  /\ pc' = "syscall"
  /\ UNCHANGED <<req, calls, devres, ret>>
  /\ UNCHANGED <<ring, nexts>>
  /\ UNCHANGED <<pvars, rvars>>

\* Backend::Default, arm Err(e)
Propagate ==
  /\ pc = "matched"
  /\ MatchesDeviceResult(req.b)
  /\ ~devres.ok
  /\ ~FallsBack(devres)
  /\ ret' = devres
  /\ pc' = "done"
  /\ UNCHANGED <<req, calls, devres>>
  /\ UNCHANGED <<ring, nexts>>
  /\ UNCHANGED <<pvars, rvars>>

\* klogctl::klog(clear), klogctl::klog_raw(clear)
SyscallCall ==
  /\ pc = "syscall"
  /\ req.op \in {"log_entries", "logs_raw"}
  /\ \E r \in SysOutcomes(req.op, ClearPassed(req)) :
       /\ calls' = Append(calls, [fn |-> SysFn(req.op), backend |-> "syscall",
                                  open |-> "none", fromfd |-> "none",
                                  read |-> "none", contents |-> <<>>,
                                  clear |-> ClearPassed(req), res |-> r])
       /\ ret' = WrapSys(req.op, r)
       /\ ring' = RingAfter(ring, ClearPassed(req), r)
  /\ pc' = "done"
  /\ UNCHANGED <<req, devres>>
  /\ UNCHANGED nexts
  /\ UNCHANGED <<pvars, rvars>>

\* klog_entries_only_if_timestamp_enabled(clear), its query and its check
TimestampQuery ==
  /\ pc = "syscall"
  /\ req.op = "logs_iter"
  /\ \E q \in TimestampOutcomes :
       /\ calls' = Append(calls, [fn |-> "klog_timestamps_enabled",
                                  backend |-> "syscall", open |-> "none",
                                  fromfd |-> "none", read |-> "none",
                                  contents |-> <<>>,
                                  clear |-> FALSE, res |-> q])
       /\ IF TimestampGate(q).ok
          THEN pc' = "construct" /\ ret' = ret
          ELSE pc' = "done" /\ ret' = TimestampGate(q)
  /\ UNCHANGED <<req, devres>>
  /\ UNCHANGED <<ring, nexts>>
  /\ UNCHANGED <<pvars, rvars>>

\* klog_entries_only_if_timestamp_enabled(clear), its constructor call
KLogConstruct ==
  /\ pc = "construct"
  /\ \E r \in SysOutcomes(req.op, ClearPassed(req)) :
       /\ calls' = Append(calls, [fn |-> SysFn(req.op), backend |-> "syscall",
                                  open |-> "none", fromfd |-> "none",
                                  read |-> "none", contents |-> <<>>,
                                  clear |-> ClearPassed(req), res |-> r])
       /\ ret' = WrapSys(req.op, r)
  /\ pc' = "done"
  /\ UNCHANGED <<req, devres>>
  /\ UNCHANGED <<ring, nexts>>
  /\ UNCHANGED <<pvars, rvars>>

\* EntriesIterator::next on the iterator logs_iter returned
IterNext ==
  /\ pc = "done"
  /\ req.op = "logs_iter"
  /\ ret.ok
  /\ Len(nexts) < MaxNext
  /\ LET e == ret.val
     IN IF Forwards(e) = "DevKMsg"
        THEN \E rd \in LineReads :
               /\ nexts' = Append(nexts, [backend |-> "DevKMsg", read |-> rd,
                                          yield |-> kmsg_next(e.it, rd),
                                          item |-> kmsg_next(e.it, rd)])
               /\ ring' = ring
        ELSE \E y \in KLogNextOutcomes :
               /\ nexts' = Append(nexts, [backend |-> "KLogCtl", read |-> None,
                                          yield |-> y, item |-> y])
               /\ ring' = RingAfterPoll(ring, e.it, y)
  /\ UNCHANGED ovars
  /\ UNCHANGED <<pvars, rvars>>

Next ==
  \/ Request
  \/ DeviceCall
  \/ DeviceOnlyReturn
  \/ DefaultOk
  \/ Fallback
  \/ Propagate
  \/ SyscallCall
  \/ TimestampQuery
  \/ KLogConstruct
  \/ IterNext

Spec == Init /\ [][Next]_vars

(***************************************************************************)
(* kmsg_raw against a device that never reports end-of-file: the drain by  *)
(* NonBlockingReader::read_available_to_string, record by record           *)
(***************************************************************************)
MaxRecords == 2

\* the records in a text
RecordsIn(t) == Cardinality({k \in DOMAIN t : t[k] = "\n"})

\* NonBlockingReader::from_fd puts the descriptor in non-blocking mode
from_fd_keeping_flags(f) == f
from_fd(f) == f \cup {"O_NONBLOCK"}

InitRead ==
  /\ line = <<>> /\ pres = NoResult /\ text = <<>> /\ ppc = "off"
  /\ req = NoRequest /\ pc = "idle" /\ calls = <<>>
  /\ devres = NoResult /\ ret = NoResult
  /\ ring = "intact" /\ nexts = <<>>
  /\ rpc = "start"
  /\ flags = {}
  /\ pending \in UNION {[1..n -> FileLineSamples] : n \in 0..MaxRecords}
  /\ buf = <<>>

\* stdfs::File::open(path), arm Ok(fc)
ReadOpen ==
  /\ rpc = "start"
  /\ rpc' = "opened"
  /\ UNCHANGED <<flags, pending, buf>>
  /\ UNCHANGED <<pvars, ovars, xvars>>

\* NonBlockingReader::from_fd(file)?
ReadFromFd ==
  /\ rpc = "opened"
  /\ flags' = from_fd(flags)
  /\ rpc' = "reading"
  /\ UNCHANGED <<pending, buf>>
  /\ UNCHANGED <<pvars, ovars, xvars>>

\* read_available_to_string: a read that finds a record appends it
ReadRecord ==
  /\ rpc = "reading"
  /\ pending # <<>>
  /\ buf' = buf \o Head(pending) \o <<"\n">>
  /\ pending' = Tail(pending)
  /\ UNCHANGED <<rpc, flags>>
  /\ UNCHANGED <<pvars, ovars, xvars>>

\* read_available_to_string: a read that finds nothing; on a non-blocking
\* descriptor it fails with EAGAIN and the drain returns Ok, on a blocking
\* one the thread sleeps until the kernel logs a record
ReadDrained ==
  /\ rpc = "reading"
  /\ pending = <<>>
  /\ rpc' = IF "O_NONBLOCK" \in flags THEN "returned" ELSE "waiting"
  /\ UNCHANGED <<flags, pending, buf>>
  /\ UNCHANGED <<pvars, ovars, xvars>>

\* the kernel logs a record while kmsg_raw runs, waking a sleeping reader
KernelLog ==
  /\ rpc # "returned"
  /\ Len(pending) + RecordsIn(buf) < MaxRecords
  /\ \E r \in FileLineSamples : pending' = Append(pending, r)
  /\ rpc' = IF rpc = "waiting" THEN "reading" ELSE rpc
  /\ UNCHANGED <<flags, buf>>
  /\ UNCHANGED <<pvars, ovars, xvars>>

ReaderStep == ReadOpen \/ ReadFromFd \/ ReadRecord \/ ReadDrained

NextRead ==
  \/ ReadOpen
  \/ ReadFromFd
  \/ ReadRecord
  \/ ReadDrained
  \/ KernelLog

\* the thread running kmsg_raw keeps running; the kernel need not log
SpecRead == InitRead /\ [][NextRead]_vars /\ WF_vars(ReaderStep)

(***************************************************************************)
(* The structured grammar, stated on its own:                              *)
(*   <faclev>,<sequence>,<timestamp>,<ignored>;<message>                   *)
(***************************************************************************)
\* blanks, then digits, then blanks
IsDigitField(s) ==
  /\ \A i \in 1..Len(s) : s[i] \in Space \cup Digit
  /\ \A k \in 1..Len(s) :
       s[k] \in Space
         => \/ \A i \in 1..(k - 1) : s[i] \in Space
            \/ \A j \in (k + 1)..Len(s) : s[j] \in Space

IsDigit(c) == c \in Digit
DigitsOf(s) == SelectSeq(s, IsDigit)

\* the positions <<p1, p2, p3, q>> of the three commas and of the semicolon
GrammarSplits(l) ==
  {<<p1, p2, p3, q>> \in
      {i \in 1..Len(l) : l[i] = ","} \X {i \in 1..Len(l) : l[i] = ","}
      \X {i \in 1..Len(l) : l[i] = ","} \X {i \in 1..Len(l) : l[i] = ";"} :
     /\ p1 < p2 /\ p2 < p3 /\ p3 < q
     /\ IsDigitField(SubSeq(l, 1, p1 - 1))
     /\ IsDigitField(SubSeq(l, p1 + 1, p2 - 1))
     /\ IsDigitField(SubSeq(l, p2 + 1, p3 - 1))
     /\ \A k \in (p3 + 1)..(q - 1) : l[k] # ";"
     /\ \A k \in (q + 1)..Len(l) : l[k] # "\n"}

GrammarMatch(l) == GrammarSplits(l) # {}

GrammarParts(l) ==
  LET p == CHOOSE x \in GrammarSplits(l) : TRUE
  IN [faclev |-> SubSeq(l, 1, p[1] - 1),
      sequence |-> SubSeq(l, p[1] + 1, p[2] - 1),
      timestamp |-> SubSeq(l, p[2] + 1, p[3] - 1),
      ignored |-> SubSeq(l, p[3] + 1, p[4] - 1),
      message |-> SubSeq(l, p[4] + 1, Len(l))]

\* a decimal numeral as the kernel prints it: digits, no leading zero
IsNumeral(s) ==
  /\ s # <<>>
  /\ \A i \in 1..Len(s) : s[i] \in Digit
  /\ (Len(s) > 1 => s[1] # "0")

\* the kernel's own form of a record: three numerals and the "-" flags field
Canonical(l) ==
  /\ GrammarMatch(l)
  /\ LET parts == GrammarParts(l)
     IN /\ IsNumeral(parts.faclev)
        /\ IsNumeral(parts.sequence)
        /\ IsNumeral(parts.timestamp)
        /\ parts.ignored = <<"-">>

\* the value of a short digit run, digit by digit from the left
RECURSIVE DecVal(_, _)
DecVal(ds, acc) ==
  IF ds = <<>> THEN acc ELSE DecVal(Tail(ds), acc * 10 + DigitVal(ds[1]))

RawEntry(l) == Entry(None, None, None, None, l)

TestLine2 == <<"6",",","7","7","9",",","9","1","6","5","0","7","7","7","7","9","7",
               ",","-",";">> \o DockerMessage

C2_FallbackRaw ==
  (ppc # "input" /\ ~GrammarMatch(line)) => pres = Ok(RawEntry(line))

C2_Witness ==
  /\ ppc = "parsed"
  /\ line = Line2
  /\ ~GrammarMatch(line)
  /\ pres = Ok(RawEntry(Line2))

AllPresent(e) ==
  /\ IsSome(e.facility) /\ IsSome(e.level)
  /\ IsSome(e.sequence_num) /\ IsSome(e.timestamp_from_system_start)

AllAbsent(e) ==
  /\ ~IsSome(e.facility) /\ ~IsSome(e.level)
  /\ ~IsSome(e.sequence_num) /\ ~IsSome(e.timestamp_from_system_start)

\* C7: every Entry returned by entry_from_line has facility, level,
\* sequence_num and timestamp either all present or all absent.
C7_AllOrNothing ==
  (ppc # "input" /\ pres.ok) => (AllPresent(pres.val) \/ AllAbsent(pres.val))

\* C8: a line matching the grammar with an empty digit run parses to an
\* Entry, never an error; an empty faclev gives facility and level absent,
\* an empty sequence gives sequence_num absent, an empty timestamp gives
\* the timestamp absent.
C8_TotalWithAbsentFields ==
  (ppc # "input" /\ GrammarMatch(line))
    => LET parts == GrammarParts(line)
           fd == DigitsOf(parts.faclev)
           sd == DigitsOf(parts.sequence)
           td == DigitsOf(parts.timestamp)
       IN (fd = <<>> \/ sd = <<>> \/ td = <<>>)
            => /\ pres.ok
               /\ fd = <<>>
                    => ~IsSome(pres.val.facility) /\ ~IsSome(pres.val.level)
               /\ sd = <<>> => ~IsSome(pres.val.sequence_num)
               /\ td = <<>> => ~IsSome(pres.val.timestamp_from_system_start)

\* the longest faclev digit run whose value is computed with TLC integers
MaxFacLevDigits == 9

\* C9: for a structured line whose faclev digit run decodes to f, the Entry
\* has facility = f / 8 and level = f % 8, and facility * 8 + level = f.
C9_PriorityDecode ==
  (ppc # "input" /\ pres.ok /\ GrammarMatch(line))
    => LET fd == DigitsOf(GrammarParts(line).faclev)
           f == DecVal(fd, 0)
           e == pres.val
       IN (fd # <<>> /\ Len(fd) <= MaxFacLevDigits) =>
          /\ IsSome(e.facility) /\ IsSome(e.level)
          /\ DecVal(e.facility[1], 0) = f \div 8
          /\ DecVal(e.level[1], 0) = f % 8
          /\ DecVal(e.facility[1], 0) * 8 + DecVal(e.level[1], 0) = f
          /\ DecVal(to_faclev(e)[1], 0) = f

C9_Witness ==
  /\ ppc = "parsed" /\ pres.ok
  /\ GrammarMatch(line)
  /\ DigitsOf(GrammarParts(line).faclev) = <<"1", "9", "1">>
  /\ pres.val.facility = Some(<<"2", "3">>)
  /\ pres.val.level = Some(<<"7">>)

\* the position of the first semicolon of a line that has one
FirstSemi(l) ==
  CHOOSE i \in 1..Len(l) : l[i] = ";" /\ \A j \in 1..(i - 1) : l[j] # ";"

\* C16: for a line matching the grammar the message is the text after the
\* first ';' of the line up to its end: later semicolons stay in the message
\* and the fields between the timestamp and that ';' stay out of it.
C16_MessageBoundary ==
  (ppc # "input" /\ pres.ok /\ GrammarMatch(line))
    => pres.val.message = SubSeq(line, FirstSemi(line) + 1, Len(line))

C16_Witness ==
  /\ ppc = "parsed" /\ pres.ok
  /\ line = <<"6",",","7","7","9",",","0",",","-",",","m","o","r","e",";",
              "a",";","b">>
  /\ GrammarMatch(line)
  /\ pres.val.message = <<"a", ";", "b">>

\* a digit run without its leading zeros
StripZeros(ds) ==
  LET k == CHOOSE i \in 1..Len(ds) :
             /\ (ds[i] # "0" \/ i = Len(ds))
             /\ \A j \in 1..(i - 1) : ds[j] = "0"
  IN SubSeq(ds, k, Len(ds))

\* the value of a non-empty digit run is at most max
FitsIn(ds, max) == NumLeq(StripZeros(ds), max)

IsParseError(r) == ~r.ok /\ r.err.kind = "EntryParsingError"

DevCalls == {i \in DOMAIN calls : calls[i].backend = "device"}
SysCalls == {i \in DOMAIN calls : calls[i].backend = "syscall"}
CallsOf(fn) == {i \in DOMAIN calls : calls[i].fn = fn}

OpenFailed(r) == ~r.ok /\ r.err.kind = "DevKMsgFileOpenError"

\* C3: under Backend::Default the device file is called first; when it fails
\* with DevKMsgFileOpenError the klogctl operation of the same request shape
\* is called once, with the caller's clear flag, and its outcome is what the
\* caller receives; nothing is called after it.
C3_FallbackOnOpenFailed ==
  (req.op # "none" /\ req.b = "Default" /\ OpenFailed(devres))
    => /\ calls[1].backend = "device" /\ calls[1].fn = DevFn(req.op)
       /\ Cardinality(DevCalls) = 1
       /\ Cardinality(CallsOf(SysFn(req.op))) <= 1
       /\ \A i \in CallsOf(SysFn(req.op)) : calls[i].clear = req.clear
       /\ pc = "done" =>
            IF req.op = "logs_iter"
            THEN /\ Cardinality(CallsOf("klog_timestamps_enabled")) = 1
                 /\ calls[2].fn = "klog_timestamps_enabled"
                 /\ IF calls[2].res = Ok(TRUE)
                    THEN /\ Len(calls) = 3
                         /\ calls[3].fn = SysFn(req.op)
                         /\ ret = WrapSys(req.op, calls[3].res)
                    ELSE /\ Len(calls) = 2
                         /\ ~ret.ok
            ELSE /\ Len(calls) = 2
                 /\ calls[2].fn = SysFn(req.op)
                 /\ ret = calls[2].res

C3_Witness ==
  /\ pc = "done"
  /\ req.b = "Default" /\ req.op = "log_entries" /\ req.clear
  /\ OpenFailed(devres)
  /\ Len(calls) = 2
  /\ calls[2].fn = "klog" /\ calls[2].clear
  /\ ret = calls[2].res /\ ret.ok

\* C4: under Backend::Default a device file error of any kind other than
\* DevKMsgFileOpenError is returned unchanged and the klogctl backend is
\* never called.
C4_NoFallbackOnOtherErrors ==
  (req.op # "none" /\ req.b = "Default" /\ calls # <<>>
     /\ ~devres.ok /\ ~OpenFailed(devres))
    => /\ Len(calls) = 1
       /\ SysCalls = {}
       /\ pc \in {"matched", "done"}
       /\ pc = "done" => ret = devres

C4_Witness ==
  /\ pc = "done"
  /\ req.b = "Default" /\ req.op = "log_entries"
  /\ ~devres.ok /\ devres.err.kind = "EntryParsingError"
  /\ ret = devres
  /\ SysCalls = {}

\* C5: when logs_iter is about to build a klogctl iterator and
\* klog_timestamps_enabled() reports false, the call returns
\* KLogTimestampsDisabled and KLogEntries::with_options is never called;
\* when the query fails, its error is returned and again nothing is built.
C5_TailingPrecondition ==
  /\ \A i \in CallsOf("klog_timestamps_enabled") :
       calls[i].res # Ok(TRUE)
         => /\ CallsOf("KLogEntries::with_options") = {}
            /\ i = Len(calls)
            /\ pc = "done"
            /\ ~ret.ok
            /\ ret = IF calls[i].res.ok
                     THEN RErr("KLogTimestampsDisabled", <<>>)
                     ELSE calls[i].res
  /\ \A j \in CallsOf("KLogEntries::with_options") :
       /\ j > 1
       /\ calls[j - 1].fn = "klog_timestamps_enabled"
       /\ calls[j - 1].res = Ok(TRUE)

C5_Witness ==
  /\ pc = "done"
  /\ req.op = "logs_iter" /\ req.b = "Default"
  /\ OpenFailed(devres)
  /\ Len(calls) = 2
  /\ calls[2].fn = "klog_timestamps_enabled" /\ calls[2].res = Ok(FALSE)
  /\ ret = RErr("KLogTimestampsDisabled", <<>>)

\* C6: with Backend::DevKMsg only the device file is called, with
\* Backend::KLogCtl only the klogctl backend; an error of the named backend,
\* DevKMsgFileOpenError included, is returned unchanged and the other
\* backend is not tried.
C6_ExplicitBackend ==
  req.op # "none" =>
    /\ req.b = "DevKMsg" =>
         /\ SysCalls = {}
         /\ Len(calls) <= 1
         /\ pc = "done" =>
              /\ Len(calls) = 1
              /\ calls[1].fn = DevFn(req.op)
              /\ ret = WrapDev(req.op, calls[1].res)
              /\ ~calls[1].res.ok => ret = calls[1].res
    /\ req.b = "KLogCtl" =>
         /\ DevCalls = {}
         /\ Cardinality(CallsOf(SysFn(req.op))) <= 1
         /\ pc = "done" =>
              /\ calls # <<>>
              /\ ~calls[Len(calls)].res.ok => ret = calls[Len(calls)].res
              /\ calls[Len(calls)].fn = SysFn(req.op)
                   => ret = WrapSys(req.op, calls[Len(calls)].res)

C6_Witness ==
  /\ pc = "done"
  /\ req.b = "DevKMsg"
  /\ OpenFailed(devres)
  /\ calls[1].open = "ENOENT"
  /\ Len(calls) = 1
  /\ ret = devres

\* C10: in with_options and in kmsg_raw a failure to open the device file
\* that is a permission failure gives OperationNotPermitted, never
\* DevKMsgFileOpenError, so that Backend::Default does not fall back on it;
\* every other failure to open gives DevKMsgFileOpenError.
C10_PermissionOnOpen ==
  \A i \in DevCalls :
    calls[i].open # "ok" =>
      IF calls[i].open \in PermissionErrnos
      THEN /\ calls[i].res.err.kind = "OperationNotPermitted"
           /\ req.b = "Default" => SysCalls = {}
      ELSE calls[i].res.err.kind = "DevKMsgFileOpenError"

\* C11: once kmsg_raw has opened the device file, a read that fails for lack
\* of permission gives OperationNotPermitted and a read that fails for any
\* other reason gives IOError, never DevKMsgFileOpenError.
C11_ReadErrorKinds ==
  \A i \in DevCalls :
    (calls[i].open = "ok" /\ calls[i].read \notin {"ok", "none"})
      => /\ ~calls[i].res.ok
         /\ calls[i].res.err.kind =
              IF calls[i].read \in PermissionErrnos
              THEN "OperationNotPermitted" ELSE "IOError"

\* C18: in log_entries and logs_raw under Backend::Default, when the device
\* file was opened successfully the klogctl backend is never called, whatever
\* happens while reading or parsing.
C18_FallbackOnlyOnFailedOpen ==
  (req.b = "Default" /\ req.op \in {"log_entries", "logs_raw"}
     /\ calls # <<>> /\ calls[1].open = "ok")
    => SysCalls = {}

\* the lines of a snapshot text, found from the positions of its newlines
NewlinesOf(t) == {k \in DOMAIN t : t[k] = "\n"}

LineEnd(t, n) ==
  CHOOSE k \in NewlinesOf(t) :
    Cardinality({j \in NewlinesOf(t) : j <= k}) = n

NthLine(t, n) ==
  LET from == IF n = 1 THEN 1 ELSE LineEnd(t, n - 1) + 1
      to == LineEnd(t, n) - 1
      to2 == IF to >= from /\ t[to] = "\r" THEN to - 1 ELSE to
  IN SubSeq(t, from, to2)

\* C13: kmsg, and log_entries when the device file serves it, returns Ok
\* with one Entry per line of the snapshot text, in line order, when every
\* line parses; otherwise it returns the parsing error of the first failing
\* line and no entries.
C13_SnapshotAllOrNothing ==
  \A i \in CallsOf("kmsg") :
    calls[i].read = "ok" =>
      LET t == calls[i].contents
          n == Cardinality(NewlinesOf(t))
          parsed == [k \in 1..n |-> entry_from_line(NthLine(t, k))]
          failing == {k \in 1..n : ~parsed[k].ok}
          res == calls[i].res
      IN /\ IF failing = {}
            THEN res = Ok([k \in 1..n |-> parsed[k].val])
            ELSE LET first == CHOOSE k \in failing : \A j \in failing : k <= j
                 IN /\ ~res.ok
                    /\ res.err.kind = "EntryParsingError"
                    /\ res = FromParsingError(parsed[first])
         /\ pc = "done" => (ret = res /\ SysCalls = {})

C13_Witness ==
  /\ pc = "done"
  /\ req.op = "log_entries"
  /\ calls[1].read = "ok"
  /\ Cardinality(NewlinesOf(calls[1].contents)) = 2
  /\ ~entry_from_line(NthLine(calls[1].contents, 1)).ok
  /\ ~entry_from_line(NthLine(calls[1].contents, 2)).ok
  /\ NthLine(calls[1].contents, 1) # NthLine(calls[1].contents, 2)
  /\ ret = FromParsingError(entry_from_line(NthLine(calls[1].contents, 1)))

DevNexts == {i \in DOMAIN nexts : nexts[i].backend = "DevKMsg"}

IsSuffix(m, l) == \E k \in 1..(Len(l) + 1) : m = SubSeq(l, k, Len(l))

\* C12: KMsgEntriesIter::next gives one item per outcome of the line stream,
\* in order: None exactly at end-of-stream, an IOError item for a read error,
\* and for a line read an Ok item made of that line or an EntryParsingError
\* item naming it; an error item does not stop later calls from yielding.
C12_OneItemPerLine ==
  \A i \in DevNexts :
    LET rd == nexts[i].read
        item == nexts[i].item
    IN /\ (item = None) <=> (rd = None)
       /\ (rd # None /\ ~rd[1].ok)
            => (item # None /\ ~item[1].ok /\ item[1].err.kind = "IOError")
       /\ (rd # None /\ rd[1].ok)
            => /\ item # None
               /\ IF item[1].ok
                  THEN IsSuffix(item[1].val.message, rd[1].val)
                  ELSE /\ item[1].err.kind = "EntryParsingError"
                       /\ item[1].err.msg[2] = rd[1].val
               /\ (~ret.val.it.raw /\ ~entry_from_line(rd[1].val).ok)
                    => ~item[1].ok

C12_Witness ==
  /\ Len(nexts) = 3
  /\ DevNexts = {1, 2, 3}
  /\ nexts[1].item # None /\ ~nexts[1].item[1].ok
  /\ nexts[1].item[1].err.kind = "IOError"
  /\ nexts[2].item # None /\ ~nexts[2].item[1].ok
  /\ nexts[2].item[1].err.kind = "EntryParsingError"
  /\ nexts[3].item # None /\ nexts[3].item[1].ok

\* C14: after a successful open kmsg_raw never waits for the kernel to log:
\* it returns, having read every record that was there, even when the device
\* is empty and nothing more is ever logged.
C14_SnapshotTerminates ==
  /\ [](rpc # "waiting")
  /\ [](rpc = "returned" => pending = <<>>)
  /\ <>(rpc = "returned")

C14_Witness ==
  /\ rpc = "returned"
  /\ buf = <<>>
  /\ pending = <<>>

\* C15: an iterator built with raw = true gives, for every line read,
\* Ok(Entry) with the whole line as message and no other field, whether or
\* not the line is structured; built with raw = false it gives what
\* entry_from_line gives for the line.
C15_RawPassThrough ==
  \A i \in DevNexts :
    (nexts[i].read # None /\ nexts[i].read[1].ok)
      => LET l == nexts[i].read[1].val
         IN IF ret.val.it.raw
            THEN nexts[i].item = Some(Ok(RawEntry(l)))
            ELSE nexts[i].item = Some(FromParsingError(entry_from_line(l)))

C15_Witness ==
  /\ nexts # <<>>
  /\ ret.val.it.raw
  /\ nexts[1].read # None /\ nexts[1].read[1].ok
  /\ GrammarMatch(nexts[1].read[1].val)
  /\ ~entry_from_line(nexts[1].read[1].val).ok
  /\ nexts[1].item = Some(Ok(RawEntry(nexts[1].read[1].val)))

\* C19: the EntriesIterator logs_iter returned has one variant, the one it
\* was built with; every next is forwarded to that variant and its result
\* is returned as it is, whatever the earlier calls yielded.
C19_VariantFixed ==
  nexts # <<>> =>
    LET v == IF CallsOf("KLogEntries::with_options") # {}
             THEN "KLogCtl" ELSE "DevKMsg"
    IN /\ ret.ok
       /\ ret.val.variant = v
       /\ \A i \in DOMAIN nexts :
            /\ nexts[i].backend = v
            /\ nexts[i].item = nexts[i].yield
            /\ v = "KLogCtl" <=> nexts[i].item \in KLogNextOutcomes

C19_Witness ==
  /\ Len(nexts) = 3
  /\ ret.val.variant = "KLogCtl"
  /\ ~nexts[1].item[1].ok
  /\ nexts[2].item[1].ok
  /\ \A i \in DOMAIN nexts : nexts[i].backend = "KLogCtl"

\* C20: a request served by the device file (Backend::DevKMsg, or
\* Backend::Default when the device file was opened) leaves the kernel ring
\* buffer as it was whatever clear is; clear reaches only calls of the
\* klogctl backend.
C20_ClearOnlyThroughSyscall ==
  /\ \A i \in DOMAIN calls :
       calls[i].clear => (calls[i].backend = "syscall" /\ req.clear)
  /\ (req.b = "DevKMsg"
        \/ (req.b = "Default" /\ calls # <<>> /\ calls[1].open = "ok"))
       => ring = "intact"

====
